---- MODULE Spec2Model ----
(***************************************************************************)
(* Model of the SAS XPORT V5/V6 decoders of avidys/xpt.rs:                 *)
(*   - ibm64_to_f64                 (src/src/ibm370.rs)                    *)
(*   - XPTParser::parse             (src/src/xpt_parser.rs)                *)
(*   - read_xpt_v5_from_bytes       (src/src/lib.rs)                       *)
(*   - read_xpt_v5_from_reader      (src/src/xpt.rs)                       *)
(* Bytes are naturals 0..255, byte slices and strings are sequences        *)
(* (strings: sequences of Unicode code points).  Offsets are 0-based as in *)
(* the source; Slice(d, a, b) is the Rust slice d[a..b].                   *)
(* Floating point values are modelled exactly (no rounding to 53 bits) as  *)
(* hexadecimal numbers: sign, hex digits, power of 16.                     *)
(***************************************************************************)
EXTENDS Integers, Sequences, FiniteSets, TLC

VARIABLES api, input, data, ret, rd

vars == <<api, input, data, ret, rd>>

(***************************************************************************)
(* Bounds of the model (sizes of the generated input files).               *)
(***************************************************************************)
MaxVars == 3
MaxRows == 2
MaxMembers == 2

(***************************************************************************)
(* Program constants.                                                      *)
(***************************************************************************)
CARD == 80
RECORD_SIZE == 80
NAME_STRING_RECORD_LENGTH == 140
MIN_NUMERIC_LENGTH == 8
MIN_CHARACTER_LENGTH == 1
namestr_len == 140

BANNER_LITERAL == <<72,69,65,68,69,82,32,82,69,67,79,82,68,42,42,42,42,42,42,42>>  \* "HEADER RECORD*******"
LIBRARY_PREFIX == <<72,69,65,68,69,82,32,82,69,67,79,82,68,42,42,42,42,42,42,42,76,73,66,82,65,82,89,32,72,69,65,68,69,82,32,82,69,67,79,82,68>>  \* "HEADER RECORD*******LIBRARY HEADER RECORD"
namestr_header == <<72,69,65,68,69,82,32,82,69,67,79,82,68,42,42,42,42,42,42,42,78,65,77,69,83,84,82,32,72,69,65,68,69,82,32,82,69,67,79,82,68,33,33,33,33,33,33,33>>  \* "HEADER RECORD*******NAMESTR HEADER RECORD!!!!!!!"
obs_header == <<72,69,65,68,69,82,32,82,69,67,79,82,68,42,42,42,42,42,42,42,79,66,83,32,32,32,32,32,72,69,65,68,69,82,32,82,69,67,79,82,68,33,33,33,33,33,33,33>>  \* "HEADER RECORD*******OBS     HEADER RECORD!!!!!!!"
member_marker == <<77,69,77,66,69,82,32,32,78,65,77,69>>  \* "MEMBER  NAME"
KW_MEMBER == <<77,69,77,66,69,82>>  \* "MEMBER"
KW_HEADER == <<72,69,65,68,69,82>>  \* "HEADER"
KW_NAMESTR == <<78,65,77,69,83,84,82>>  \* "NAMESTR"
KW_DSCRPTR == <<68,83,67,82,80,84,82>>  \* "DSCRPTR"
KW_OBS == <<79,66,83>>  \* "OBS"
DEFAULT_TITLE == <<88,80,84,32,68,97,116,97,115,101,116>>  \* "XPT Dataset"
DS_NAME == <<68,65,84,65,83,69,84>>  \* "DATASET"

(***************************************************************************)
(* Byte-slice helpers.                                                     *)
(***************************************************************************)
Rep(b, n) == [i \in 1..n |-> b]

Slice(d, a, b) == SubSeq(d, a + 1, b)

AllBytes(d, P(_)) == \A i \in 1..Len(d) : P(d[i])

IsZero(b) == b = 0

MinOf(S) == CHOOSE x \in S : \A y \in S : x <= y

(* Option<usize>: None is modelled as -1. *)
NoneIdx == 0 - 1

(* data.windows(pattern.len()).position(|w| w == pattern) *)
find_bytes(d, pattern) ==
    LET hits == {i \in 0..(Len(d) - Len(pattern)) :
                    \A k \in 1..Len(pattern) : d[i + k] = pattern[k]}
    IN  IF hits = {} THEN NoneIdx ELSE MinOf(hits)

(* str::contains / str::starts_with on the bytes of a valid string *)
Contains(s, pat) == find_bytes(s, pat) # NoneIdx

StartsWith(s, pat) ==
    /\ Len(s) >= Len(pat)
    /\ \A k \in 1..Len(pat) : s[k] = pat[k]

(***************************************************************************)
(* UTF-8: one decoding step at 1-based index i of s.  Returns              *)
(* <<bytes consumed, code point, well-formed>>; an ill-formed maximal      *)
(* subpart decodes to U+FFFD as String::from_utf8_lossy does.              *)
(***************************************************************************)
REPLACEMENT == 65533

IsCont(s, i) == i <= Len(s) /\ s[i] >= 128 /\ s[i] <= 191

InRange(s, i, lo, hi) == i <= Len(s) /\ s[i] >= lo /\ s[i] <= hi

Utf8Step(s, i) ==
    LET b == s[i] IN
    IF b < 128 THEN <<1, b, TRUE>>
    ELSE IF b >= 194 /\ b <= 223 THEN
        IF IsCont(s, i + 1) THEN <<2, (b - 192) * 64 + (s[i + 1] - 128), TRUE>>
        ELSE <<1, REPLACEMENT, FALSE>>
    ELSE IF b >= 224 /\ b <= 239 THEN
        LET lo == IF b = 224 THEN 160 ELSE 128
            hi == IF b = 237 THEN 159 ELSE 191
        IN  IF ~InRange(s, i + 1, lo, hi) THEN <<1, REPLACEMENT, FALSE>>
            ELSE IF ~IsCont(s, i + 2) THEN <<2, REPLACEMENT, FALSE>>
            ELSE <<3, (b - 224) * 4096 + (s[i + 1] - 128) * 64 + (s[i + 2] - 128), TRUE>>
    ELSE IF b >= 240 /\ b <= 244 THEN
        LET lo == IF b = 240 THEN 144 ELSE 128
            hi == IF b = 244 THEN 143 ELSE 191
        IN  IF ~InRange(s, i + 1, lo, hi) THEN <<1, REPLACEMENT, FALSE>>
            ELSE IF ~IsCont(s, i + 2) THEN <<2, REPLACEMENT, FALSE>>
            ELSE IF ~IsCont(s, i + 3) THEN <<3, REPLACEMENT, FALSE>>
            ELSE <<4, (b - 240) * 262144 + (s[i + 1] - 128) * 4096
                        + (s[i + 2] - 128) * 64 + (s[i + 3] - 128), TRUE>>
    ELSE <<1, REPLACEMENT, FALSE>>

RECURSIVE Utf8ValidFrom(_, _)
Utf8ValidFrom(s, i) ==
    IF i > Len(s) THEN TRUE
    ELSE LET st == Utf8Step(s, i)
         IN  st[3] /\ Utf8ValidFrom(s, i + st[1])

(* std::str::from_utf8(s).is_ok() *)
Utf8Valid(s) == Utf8ValidFrom(s, 1)

RECURSIVE LossyFrom(_, _)
LossyFrom(s, i) ==
    IF i > Len(s) THEN <<>>
    ELSE LET st == Utf8Step(s, i)
         IN  <<st[2]>> \o LossyFrom(s, i + st[1])

(* String::from_utf8_lossy(s) and, for valid input, String::from_utf8(s) *)
from_utf8_lossy(s) == LossyFrom(s, 1)

(* char::is_whitespace: the Unicode White_Space property *)
is_whitespace(c) ==
    \/ c >= 9 /\ c <= 13
    \/ c \in {32, 133, 160, 5760, 8232, 8233, 8239, 8287, 12288}
    \/ c >= 8192 /\ c <= 8202

MaxOf(S) == CHOOSE x \in S : \A y \in S : x >= y

(* str::trim_end_matches(P) and str::trim_start_matches(P) *)
TrimEndMatches(s, P(_)) ==
    LET keep == {i \in 1..Len(s) : ~P(s[i])}
    IN  IF keep = {} THEN <<>> ELSE SubSeq(s, 1, MaxOf(keep))

TrimStartMatches(s, P(_)) ==
    LET keep == {i \in 1..Len(s) : ~P(s[i])}
    IN  IF keep = {} THEN <<>> ELSE SubSeq(s, MinOf(keep), Len(s))

IsWsOrNul(c) == is_whitespace(c) \/ c = 0

(***************************************************************************)
(* Numbers.  A float is [neg, digs, e]: (-1)^neg * 0.d1 d2 ... dn * 16^e   *)
(* with hex digits d1 # 0 and dn # 0; zero is digs = <<>>, e = 0.          *)
(***************************************************************************)
IsZeroDigit(x) == x = 0

HexNorm(neg, digits, e) ==
    LET t == TrimEndMatches(digits, IsZeroDigit)
        h == TrimStartMatches(t, IsZeroDigit)
    IN  IF h = <<>> THEN [neg |-> neg, digs |-> <<>>, e |-> 0]
        ELSE [neg |-> neg, digs |-> h, e |-> e - (Len(t) - Len(h))]

(* the 14 hex digits of bytes 1..7 of an 8-byte field, most significant first *)
Nibbles(bytes) ==
    [k \in 1..14 |-> IF k % 2 = 1 THEN bytes[1 + (k + 1) \div 2] \div 16
                     ELSE bytes[1 + k \div 2] % 16]

(***************************************************************************)
(* Decimal text of a float, by exact arithmetic on digit sequences.        *)
(* ih are the hex digits in front of the point and fh those behind it.     *)
(***************************************************************************)
HexSplit(x) ==
    LET n == Len(x.digs) IN
    IF x.e <= 0 THEN [ih |-> <<>>, fh |-> Rep(0, 0 - x.e) \o x.digs]
    ELSE IF x.e >= n THEN [ih |-> x.digs \o Rep(0, x.e - n), fh |-> <<>>]
    ELSE [ih |-> SubSeq(x.digs, 1, x.e), fh |-> SubSeq(x.digs, x.e + 1, n)]

(* 10 * 0.F[i..] as <<carry, digits...>> *)
RECURSIVE Mul10(_, _)
Mul10(F, i) ==
    IF i > Len(F) THEN <<0>>
    ELSE LET t == Mul10(F, i + 1)
             v == F[i] * 10 + t[1]
         IN  <<v \div 16, v % 16>> \o Tail(t)

(* 10 * 0.F = d + 0.rest *)
FracStep(F) ==
    LET t == Mul10(F, 1)
    IN  [d |-> t[1], rest |-> TrimEndMatches(Tail(t), IsZeroDigit)]

(* the first count decimal digits of 0.F (fewer when the expansion ends) *)
RECURSIVE FracDigits(_, _)
FracDigits(F, count) ==
    IF count = 0 \/ F = <<>> THEN <<>>
    ELSE LET st == FracStep(F)
         IN  <<48 + st.d>> \o FracDigits(st.rest, count - 1)

(* what is left of 0.F after count decimal digits *)
RECURSIVE FracRest(_, _)
FracRest(F, count) ==
    IF count = 0 \/ F = <<>> THEN F ELSE FracRest(FracStep(F).rest, count - 1)

(* the hex number H[i..] with r carried in, divided by 10: <<quotient digits..., remainder>> *)
RECURSIVE DivBy10(_, _, _)
DivBy10(H, i, r) ==
    IF i > Len(H) THEN <<r>>
    ELSE LET v == r * 16 + H[i]
         IN  <<v \div 10>> \o DivBy10(H, i + 1, v % 10)

RECURSIVE IntDigitsOf(_)
IntDigitsOf(H) ==
    LET h == TrimStartMatches(H, IsZeroDigit) IN
    IF h = <<>> THEN <<>>
    ELSE LET t == DivBy10(h, 1, 0)
         IN  IntDigitsOf(SubSeq(t, 1, Len(h))) \o <<48 + t[Len(t)]>>

RECURSIVE IntDigits(_)
IntDigits(n) ==
    IF n < 10 THEN <<48 + n>> ELSE IntDigits(n \div 10) \o <<48 + (n % 10)>>

(* decimal digit text plus one *)
RECURSIVE IncDecimal(_)
IncDecimal(ds) ==
    IF ds = <<>> THEN <<49>>
    ELSE IF ds[Len(ds)] < 57 THEN SubSeq(ds, 1, Len(ds) - 1) \o <<ds[Len(ds)] + 1>>
    ELSE IncDecimal(SubSeq(ds, 1, Len(ds) - 1)) \o <<48>>

SignText(x) == IF x.neg THEN <<45>> ELSE <<>>

IsChar0(c) == c = 48

IsCharDot(c) == c = 46

(* format!("{:.6}", value): six decimals, ties to even.  Format6Join     *)
(* places the point in the digit string all, whose last six digits are the *)
(* decimals; Format6Round rounds the integer digits ip and the first seven *)
(* decimals ds, more telling whether non-zero digits follow them.          *)
Format6Join(sign, all) ==
    sign \o (IF Len(all) = 6 THEN <<48>> ELSE SubSeq(all, 1, Len(all) - 6))
         \o <<46>> \o SubSeq(all, Len(all) - 5, Len(all))

Format6Six(ds) == [i \in 1..6 |-> IF i <= Len(ds) THEN ds[i] ELSE 48]

Format6Round(sign, ip, ds, more) ==
    IF /\ Len(ds) = 7
       /\ \/ ds[7] > 53
          \/ ds[7] = 53 /\ (more \/ ds[6] % 2 = 1)
    THEN Format6Join(sign, IncDecimal(ip \o Format6Six(ds)))
    ELSE Format6Join(sign, ip \o Format6Six(ds))

Format6Split(x, p) ==
    Format6Round(SignText(x), IntDigitsOf(p.ih), FracDigits(p.fh, 7),
                 FracRest(p.fh, 7) # <<>>)

format_6(x) ==
    IF x.e <= 0 - 6
    THEN (* |value| < 16^-6 < 0.0000005: every digit is 0 *)
         SignText(x) \o <<48, 46>> \o Rep(48, 6)
    ELSE Format6Split(x, HexSplit(x))

(* the number of binary places behind the point of 0.F (F ends in a        *)
(* non-zero hex digit): the decimal expansion has as many decimal places   *)
FracBits(F) ==
    IF F = <<>> THEN 0
    ELSE LET d == F[Len(F)]
         IN  4 * Len(F) - (IF d % 2 = 1 THEN 0 ELSE IF d % 4 # 0 THEN 1
                           ELSE IF d % 8 # 0 THEN 2 ELSE 3)

(* f64::to_string prints the shortest decimal text that reads back as the  *)
(* same value.  For a value below 16^15 with at most 16 decimal places and *)
(* at most 15 significant digits the exact expansion is that text; the     *)
(* text of any other value is kept as the token                            *)
(* <<-1, sign, hex digits, exponent>>, which is non-empty and different    *)
(* for different values, as the printed text is.                           *)
TextToken(x) == <<0 - 1, IF x.neg THEN 1 ELSE 0>> \o x.digs \o <<x.e>>

F64Text(x, ip, fd) ==
    IF Len(TrimStartMatches(ip \o fd, IsChar0)) > 15 THEN TextToken(x)
    ELSE SignText(x) \o (IF ip = <<>> THEN <<48>> ELSE ip)
         \o (IF fd = <<>> THEN <<>> ELSE <<46>> \o fd)

F64Split(x, p) ==
    IF Len(p.ih) > 15 \/ FracBits(p.fh) > 16 THEN TextToken(x)
    ELSE F64Text(x, IntDigitsOf(p.ih), FracDigits(p.fh, 16))

f64_to_string(x) == F64Split(x, HexSplit(x))

(***************************************************************************)
(* ibm370.rs                                                               *)
(***************************************************************************)
NoValue == [some |-> FALSE, neg |-> FALSE, digs |-> <<>>, e |-> 0]

SomeValue(x) == [some |-> TRUE, neg |-> x.neg, digs |-> x.digs, e |-> x.e]

IbmMissing(tag, letter) == [tag |-> tag, letter |-> letter]

IbmResult(val, miss) == [val |-> val, miss |-> miss]

(* IbmSpecial with the letter range ending one letter early *)
IbmSpecial_ShortRange(b0) ==
    IF b0 = 46 \/ b0 = 95 THEN IbmResult(NoValue, IbmMissing("Dot", 0))
    ELSE IF b0 >= 65 /\ b0 < 90 THEN IbmResult(NoValue, IbmMissing("Letter", b0))
    ELSE IbmResult(NoValue, IbmMissing("None", 0))

(* bytes[1..] all zero: the result is decided by byte 0 alone *)
IbmSpecial(b0) ==
    IF b0 = 46 \/ b0 = 95 THEN IbmResult(NoValue, IbmMissing("Dot", 0))
    ELSE IF b0 >= 65 /\ b0 <= 90 THEN IbmResult(NoValue, IbmMissing("Letter", b0))
    ELSE IbmResult(NoValue, IbmMissing("None", 0))

(* The loop over the 14 nibbles: f = sum nib_k / denom_k with denom_1 = 1.0 *)
(* and denom_(k+1) = 16 * denom_k, i.e. f = d1.d2...d14 (one digit before   *)
(* the point) = 0.d1...d14 * 16^1; then val = f * 16^p.                     *)
IbmFraction(bytes, p) == HexNorm(FALSE, Nibbles(bytes), p + 1)

ibm64_to_f64(bytes) ==
    IF Len(bytes) < 8 THEN IbmResult(NoValue, IbmMissing("None", 0))
    ELSE
    LET b0 == bytes[1] IN
    IF \A i \in 2..Len(bytes) : bytes[i] = 0 THEN IbmSpecial(b0)
    ELSE
    LET sign == b0 >= 128
        exp == b0 % 128
    IN  IF exp = 0 /\ (\A i \in 2..Len(bytes) : bytes[i] = 0)
        THEN IbmResult(SomeValue(HexNorm(FALSE, <<>>, 0)), IbmMissing("None", 0))
        ELSE LET f == IbmFraction(bytes, exp - 64)
             IN  IbmResult(SomeValue([f EXCEPT !.neg = sign]), IbmMissing("None", 0))

(***************************************************************************)
(* xpt_parser.rs                                                           *)
(***************************************************************************)
align_to_record_boundary(index) ==
    LET remainder == index % RECORD_SIZE
    IN  IF remainder = 0 THEN index ELSE index + (RECORD_SIZE - remainder)

ascii_string(d, offset, length) ==
    IF offset >= Len(d) \/ offset + length > Len(d) THEN <<>>
    ELSE TrimEndMatches(from_utf8_lossy(Slice(d, offset, offset + length)), IsWsOrNul)

ascii_string_trimmed(d) == TrimEndMatches(from_utf8_lossy(d), IsWsOrNul)

u16_from_be_bytes(hi, lo) == hi * 256 + lo

(* Option<NameStringRecord>: some = FALSE is None *)
parse_name_string(d) ==
    IF Len(d) < NAME_STRING_RECORD_LENGTH
    THEN [some |-> FALSE, var_type |-> 0, length |-> 0, name |-> <<>>,
          label |-> <<>>, position |-> 0]
    ELSE [some |-> TRUE,
          var_type |-> u16_from_be_bytes(d[1], d[2]),
          length |-> u16_from_be_bytes(d[5], d[6]),
          name |-> ascii_string(d, 8, 8),
          label |-> ascii_string(d, 16, 40),
          position |-> u16_from_be_bytes(d[7], d[8])]

TXT_0 == <<48>>
TXT_NEG0 == <<45, 48>>

TrimmedOrZero(trimmed) == IF trimmed = <<>> THEN TXT_0 ELSE trimmed

parse_numeric_value(d) ==
    IF Len(d) < 8 THEN <<>>
    ELSE
    LET bytes == Slice(d, 0, 8) IN
    IF AllBytes(bytes, IsZero) THEN TXT_0
    ELSE IF bytes[1] = 46 THEN <<>>
    ELSE
    LET sign == bytes[1] >= 128
        exponent == (bytes[1] % 128) - 64
        fraction_is_zero == \A i \in 2..8 : bytes[i] = 0
    IN  IF fraction_is_zero THEN (IF sign THEN TXT_NEG0 ELSE TXT_0)
        ELSE TrimmedOrZero(TrimEndMatches(TrimEndMatches(
                 format_6(HexNorm(sign, Nibbles(bytes), exponent)),
                 IsChar0), IsCharDot))

parse_cell(d, variable) ==
    IF variable.var_type = "Character" THEN ascii_string_trimmed(d)
    ELSE parse_numeric_value(d)

IsTitleSep(c) == c = 32 \/ c = 0

(* text.split(' ' or NUL).filter(non-empty).first(), then trim() *)
FirstComponent(text) ==
    LET rest == TrimStartMatches(text, IsTitleSep)
        seps == {i \in 1..Len(rest) : IsTitleSep(rest[i])}
        word == IF seps = {} THEN rest ELSE SubSeq(rest, 1, MinOf(seps) - 1)
    IN  TrimStartMatches(TrimEndMatches(word, is_whitespace), is_whitespace)

(* suggested_filename is None in every caller of this repository *)
infer_dataset_title(d) ==
    LET pos == find_bytes(d, member_marker)
        start == pos + Len(member_marker)
        limit == IF start + 80 < Len(d) THEN start + 80 ELSE Len(d)
        raw == Slice(d, start, limit)
    IN  IF pos # NoneIdx /\ Utf8Valid(raw)
           /\ TrimStartMatches(from_utf8_lossy(raw), IsTitleSep) # <<>>
        THEN FirstComponent(from_utf8_lossy(raw))
        ELSE DEFAULT_TITLE

(* the sort key of name record number idx (0-based) *)
RecordOrder(rec, idx) == IF rec.position > 0 THEN rec.position ELSE idx + 1

(* ordered_records.sort_by(order, then index): the 1-based indices of      *)
(* name_records in sorted order                                            *)
SortedRecordIndices(name_records) ==
    LET n == Len(name_records)
        Before(i, j) ==
            LET oi == RecordOrder(name_records[i], i - 1)
                oj == RecordOrder(name_records[j], j - 1)
            IN  oi < oj \/ (oi = oj /\ i < j)
        Rank(i) == Cardinality({j \in 1..n : Before(j, i)}) + 1
    IN  [k \in 1..n |-> CHOOSE i \in 1..n : Rank(i) = k]

TXT_VAR == <<86, 65, 82>>

VariableLength(var_type, length) ==
    IF var_type = "Numeric"
    THEN (IF length > MIN_NUMERIC_LENGTH THEN length ELSE MIN_NUMERIC_LENGTH)
    ELSE (IF length > MIN_CHARACTER_LENGTH THEN length ELSE MIN_CHARACTER_LENGTH)

MakeVariable(record, index) ==
    LET var_type == IF record.var_type = 1 THEN "Numeric" ELSE "Character"
    IN  [name |-> IF record.name = <<>> THEN TXT_VAR \o IntDigits(index + 1)
                  ELSE record.name,
         label |-> record.label,
         var_type |-> var_type,
         length |-> VariableLength(var_type, record.length),
         position |-> record.position]

RECURSIVE SumLengths(_, _)
SumLengths(variables, n) ==
    IF n = 0 THEN 0 ELSE SumLengths(variables, n - 1) + variables[n].length

IsFiller(b) == b = 0 \/ b = 32

(* RowWidthCandidates without the width rounded up to a multiple of 8 *)
RowWidthCandidates_DeclaredOnly(storage_width) == <<storage_width>>

RowWidthCandidates(storage_width) ==
    <<storage_width, ((storage_width + 7) \div 8) * 8>>

(* CandidateAccepted taking only blanks, not zero bytes, as filler *)
CandidateAccepted_BlankOnly(raw, candidate) ==
    LET remainder == Len(raw) % candidate
    IN  \/ remainder = 0
        \/ AllBytes(Slice(raw, Len(raw) - remainder, Len(raw)), LAMBDA b : b = 32)

(* whether the candidate row width is accepted for the raw observations *)
CandidateAccepted(raw, candidate) ==
    LET remainder == Len(raw) % candidate
    IN  \/ remainder = 0
        \/ AllBytes(Slice(raw, Len(raw) - remainder, Len(raw)), IsFiller)

(* [width, bytes]: the resolved row width (NoneIdx when none) and the      *)
(* observation bytes left after dropping the filler remainder              *)
ResolveRowWidth(raw, storage_width) ==
    LET cands == RowWidthCandidates(storage_width)
        ok == {i \in 1..Len(cands) : CandidateAccepted(raw, cands[i])}
    IN  IF ok = {} THEN [width |-> NoneIdx, bytes |-> raw]
        ELSE LET c == cands[MinOf(ok)]
             IN  [width |-> c, bytes |-> Slice(raw, 0, Len(raw) - (Len(raw) % c))]

(* the cells of one row: variables are walked while their bytes fit *)
RowValues(row_data, variables) ==
    LET n == Len(variables)
        fits == {j \in 1..n : \A i \in 1..j : SumLengths(variables, i) <= Len(row_data)}
    IN  [j \in 1..Cardinality(fits) |->
            parse_cell(Slice(row_data, SumLengths(variables, j - 1),
                             SumLengths(variables, j)), variables[j])]

(* DecodeRows dropping the rows whose bytes are all filler *)
DecodeRows_SkipFillerRows(observation_bytes, variables, row_width, storage_width) ==
    LET observation_count == Len(observation_bytes) \div row_width
        kept == {r \in 1..observation_count :
                    ~AllBytes(Slice(observation_bytes, (r - 1) * row_width,
                                    (r - 1) * row_width + storage_width), IsFiller)}
    IN  [r \in 1..Cardinality(kept) |->
            RowValues(Slice(observation_bytes, (r - 1) * row_width,
                            (r - 1) * row_width + storage_width), variables)]

DecodeRows(observation_bytes, variables, row_width, storage_width) ==
    LET observation_count == Len(observation_bytes) \div row_width
        reached == {r \in 0..(observation_count - 1) :
                       \A q \in 0..r : q * row_width + storage_width <= Len(observation_bytes)}
        all == [r \in 1..Cardinality(reached) |->
                   RowValues(Slice(observation_bytes, (r - 1) * row_width,
                                   (r - 1) * row_width + storage_width), variables)]
    IN  SelectSeq(all, LAMBDA row : Len(row) = Len(variables))

ParseErr(msg) ==
    [kind |-> "Err", msg |-> msg, title |-> <<>>, variables |-> <<>>, rows |-> <<>>]

ParsePanic(msg) ==
    [kind |-> "Panic", msg |-> msg, title |-> <<>>, variables |-> <<>>, rows |-> <<>>]

ParseOk(title, variables, rows) ==
    [kind |-> "Ok", msg |-> "", title |-> title, variables |-> variables, rows |-> rows]

(* ParseObservations without the test of the observation bytes against    *)
(* the row width                                                           *)
ParseObservations_NoSizeCheck(d, obs_header_pos, title, variables) ==
    LET obs_data_start == align_to_record_boundary(obs_header_pos + Len(obs_header)) IN
    IF obs_data_start > Len(d)
    THEN ParsePanic("range start index out of range for slice")
    ELSE
    LET raw_observation_bytes == Slice(d, obs_data_start, Len(d))
        storage_width == SumLengths(variables, Len(variables))
    IN
    IF storage_width = 0 THEN ParseErr("Variables have zero length")
    ELSE
    LET resolved == ResolveRowWidth(raw_observation_bytes, storage_width) IN
    IF resolved.width = NoneIdx THEN ParseErr("Unable to determine observation width")
    ELSE ParseOk(title, variables,
                 DecodeRows(resolved.bytes, variables, resolved.width, storage_width))

(* the part of parse after the variables are known (lines 156-229) *)
ParseObservations(d, obs_header_pos, title, variables) ==
    LET obs_data_start == align_to_record_boundary(obs_header_pos + Len(obs_header)) IN
    IF obs_data_start > Len(d)
    THEN ParsePanic("range start index out of range for slice")
    ELSE
    LET raw_observation_bytes == Slice(d, obs_data_start, Len(d))
        storage_width == SumLengths(variables, Len(variables))
    IN
    IF storage_width = 0 THEN ParseErr("Variables have zero length")
    ELSE
    LET resolved == ResolveRowWidth(raw_observation_bytes, storage_width) IN
    IF resolved.width = NoneIdx THEN ParseErr("Unable to determine observation width")
    ELSE IF Len(resolved.bytes) < resolved.width THEN ParseErr("Observation data too small")
    ELSE ParseOk(title, variables,
                 DecodeRows(resolved.bytes, variables, resolved.width, storage_width))

(* the 140-byte records of the name string block that parse (lines 91-100) *)
NameRecords(name_string_block) ==
    LET record_count == Len(name_string_block) \div NAME_STRING_RECORD_LENGTH
        parsed == [i \in 1..record_count |->
                      parse_name_string(Slice(name_string_block,
                          (i - 1) * NAME_STRING_RECORD_LENGTH,
                          i * NAME_STRING_RECORD_LENGTH))]
    IN  SelectSeq(parsed, LAMBDA r : r.some)

(* XPTParser::parse(data, None) *)
XPTParser_parse(d) ==
    IF Len(d) < RECORD_SIZE THEN ParseErr("File too small to be a valid XPT file")
    ELSE
    LET namestr_header_pos == find_bytes(d, namestr_header)
        obs_header_pos == find_bytes(d, obs_header)
    IN
    IF namestr_header_pos = NoneIdx THEN ParseErr("NAMESTR header not found")
    ELSE IF obs_header_pos = NoneIdx THEN ParseErr("OBS header not found")
    ELSE
    LET name_str_block_start ==
            align_to_record_boundary(namestr_header_pos + Len(namestr_header))
        name_str_block_end == obs_header_pos
    IN
    IF name_str_block_end <= name_str_block_start THEN ParseErr("Invalid header positions")
    ELSE
    LET name_string_block == Slice(d, name_str_block_start, name_str_block_end) IN
    IF Len(name_string_block) < NAME_STRING_RECORD_LENGTH
    THEN ParseErr("Name string block too small")
    ELSE
    LET name_records == NameRecords(name_string_block) IN
    IF name_records = <<>> THEN ParseErr("Variable descriptors could not be parsed")
    ELSE
    LET order == SortedRecordIndices(name_records)
        variables == [k \in 1..Len(order) |-> MakeVariable(name_records[order[k]], k - 1)]
    IN  ParseObservations(d, obs_header_pos, infer_dataset_title(d), variables)

(***************************************************************************)
(* lib.rs                                                                  *)
(***************************************************************************)
OptNone == [some |-> FALSE, text |-> <<>>]

OptSome(text) == [some |-> TRUE, text |-> text]

LibVarMeta(v) ==
    [name |-> v.name, label |-> v.label, length |-> v.length,
     position |-> v.position, is_char |-> v.var_type = "Character"]

LibCell(v) == IF v = <<>> THEN OptNone ELSE OptSome(v)

LibErr(msg) == [kind |-> "Err", msg |-> msg, datasets |-> <<>>]

LibPanic(msg) == [kind |-> "Panic", msg |-> msg, datasets |-> <<>>]

LibOk(datasets) == [kind |-> "Ok", msg |-> "", datasets |-> datasets]

Dataset(name, vs, rows) == [name |-> name, vars |-> vs, rows |-> rows]

(* DatasetFrom leaving the empty cells out of a row instead of turning     *)
(* them into None                                                          *)
DatasetFrom_DropEmptyCells(xpt_dataset) ==
    IF xpt_dataset.kind = "Err" THEN LibErr(xpt_dataset.msg)
    ELSE IF xpt_dataset.kind = "Panic" THEN LibPanic(xpt_dataset.msg)
    ELSE LibOk(<<Dataset(xpt_dataset.title,
                         [i \in 1..Len(xpt_dataset.variables) |->
                             LibVarMeta(xpt_dataset.variables[i])],
                         [r \in 1..Len(xpt_dataset.rows) |->
                             SelectSeq([c \in 1..Len(xpt_dataset.rows[r]) |->
                                           LibCell(xpt_dataset.rows[r][c])],
                                       LAMBDA cell : cell.some)])>>)

DatasetFrom(xpt_dataset) ==
    IF xpt_dataset.kind = "Err" THEN LibErr(xpt_dataset.msg)
    ELSE IF xpt_dataset.kind = "Panic" THEN LibPanic(xpt_dataset.msg)
    ELSE LibOk(<<Dataset(xpt_dataset.title,
                         [i \in 1..Len(xpt_dataset.variables) |->
                             LibVarMeta(xpt_dataset.variables[i])],
                         [r \in 1..Len(xpt_dataset.rows) |->
                             [c \in 1..Len(xpt_dataset.rows[r]) |->
                                 LibCell(xpt_dataset.rows[r][c])]])>>)

read_xpt_v5_from_bytes(d) == DatasetFrom(XPTParser_parse(d))

(***************************************************************************)
(* xpt.rs                                                                  *)
(***************************************************************************)
(* read_card: read_exact of one card at byte offset pos of the stream; a   *)
(* short read fails and leaves the stream at its end                       *)
read_card(d, pos) ==
    IF pos + CARD <= Len(d)
    THEN [ok |-> TRUE, card |-> Slice(d, pos, pos + CARD), pos |-> pos + CARD]
    ELSE [ok |-> FALSE, card |-> <<>>, pos |-> Len(d)]

(* std::str::from_utf8(c).unwrap_or("") *)
card_str(c) == IF Utf8Valid(c) THEN c ELSE <<>>

trim_ascii(b) == TrimEndMatches(from_utf8_lossy(b), IsWsOrNul)

be_i16(b) ==
    LET u == b[1] * 256 + b[2]
    IN  IF u >= 32768 THEN u - 65536 ELSE u

be_i32(b) ==
    IF b[1] >= 128
    THEN (b[1] - 256) * 16777216 + b[2] * 65536 + b[3] * 256 + b[4]
    ELSE b[1] * 16777216 + b[2] * 65536 + b[3] * 256 + b[4]

(* `as usize` of a signed value: a negative value wraps to 2^64 - |v|,     *)
(* which stands here as the largest integer of the model                   *)
USIZE_HUGE == 2147483647

AsUsize(v) == IF v >= 0 THEN v ELSE USIZE_HUGE

parse_namestr_140(b) ==
    [name |-> trim_ascii(Slice(b, 8, 16)),
     label |-> trim_ascii(Slice(b, 16, 56)),
     format_name |-> trim_ascii(Slice(b, 56, 64)),
     format_len |-> be_i16(Slice(b, 64, 66)),
     format_decimals |-> be_i16(Slice(b, 66, 68)),
     informat_name |-> trim_ascii(Slice(b, 72, 80)),
     informat_len |-> be_i16(Slice(b, 80, 82)),
     informat_decimals |-> be_i16(Slice(b, 82, 84)),
     length |-> AsUsize(be_i16(Slice(b, 4, 6))),
     position |-> AsUsize(be_i32(Slice(b, 84, 88))),
     is_char |-> be_i16(Slice(b, 0, 2)) # 1,
     varnum |-> be_i16(Slice(b, 6, 8))]

(* the windows-1252 code points of the bytes 0x80..0x9F *)
CP1252_HIGH ==
    <<8364, 129, 8218, 402, 8222, 8230, 8224, 8225, 710, 8240, 352, 8249, 338, 141,
      381, 143, 144, 8216, 8217, 8220, 8221, 8226, 8211, 8212, 732, 8482, 353, 8250,
      339, 157, 382, 159>>

Cp1252Char(b) == IF b >= 128 /\ b <= 159 THEN CP1252_HIGH[b - 127] ELSE b

(* UTF-16 code units of a byte sequence, big or little endian; a trailing  *)
(* odd byte and an unpaired surrogate decode to U+FFFD                     *)
RECURSIVE Utf16From(_, _, _)
Utf16From(b, i, be) ==
    IF i > Len(b) THEN <<>>
    ELSE IF i = Len(b) THEN <<REPLACEMENT>>
    ELSE
    LET Unit(k) == IF be THEN b[k] * 256 + b[k + 1] ELSE b[k + 1] * 256 + b[k]
        u == Unit(i)
    IN  IF u >= 55296 /\ u <= 56319 /\ i + 3 <= Len(b)
           /\ Unit(i + 2) >= 56320 /\ Unit(i + 2) <= 57343
        THEN <<65536 + (u - 55296) * 1024 + (Unit(i + 2) - 56320)>> \o Utf16From(b, i + 4, be)
        ELSE IF u >= 55296 /\ u <= 57343 THEN <<REPLACEMENT>> \o Utf16From(b, i + 2, be)
        ELSE <<u>> \o Utf16From(b, i + 2, be)

(* WINDOWS_1252.decode(bytes): a byte order mark selects UTF-8 or UTF-16 *)
Windows1252Decode(b) ==
    IF StartsWith(b, <<239, 187, 191>>) THEN from_utf8_lossy(SubSeq(b, 4, Len(b)))
    ELSE IF StartsWith(b, <<255, 254>>) THEN Utf16From(b, 3, FALSE)
    ELSE IF StartsWith(b, <<254, 255>>) THEN Utf16From(b, 3, TRUE)
    ELSE [i \in 1..Len(b) |-> Cp1252Char(b[i])]

decode_char(b) == TrimEndMatches(Windows1252Decode(b), is_whitespace)

TXT_0000 == <<48,48,48,48>>

IsDigitChar(c) == c >= 48 /\ c <= 57

RECURSIVE DigitsValue(_)
DigitsValue(ds) ==
    IF ds = <<>> THEN 0
    ELSE DigitsValue(SubSeq(ds, 1, Len(ds) - 1)) * 10 + (ds[Len(ds)] - 48)

(* from_utf8(b).unwrap_or("0000").trim().parse::<usize>().unwrap_or(0) *)
ParseCount(b) ==
    LET text == IF Utf8Valid(b) THEN from_utf8_lossy(b) ELSE TXT_0000
        t == TrimStartMatches(TrimEndMatches(text, is_whitespace), is_whitespace)
        ds == IF t # <<>> /\ t[1] = 43 THEN Tail(t) ELSE t
    IN  IF ds # <<>> /\ (\A i \in 1..Len(ds) : IsDigitChar(ds[i])) THEN DigitsValue(ds)
        ELSE 0

IsBannerKind(card, kw) == Contains(card_str(card), kw) /\ Contains(card_str(card), KW_HEADER)

(* the state of one call of read_xpt_v5_from_reader *)
ReaderInit ==
    [pc |-> "start", pos |-> 0, has_library_header |-> FALSE, first_card |-> <<>>,
     out |-> <<>>, peeked_namestr_card |-> <<>>, mh0 |-> <<>>,
     is_namestr_header |-> FALSE, nvars_from_header |-> 0, namestr_buffer |-> <<>>,
     cards_read |-> 0, skip_zeros |-> TRUE, vars |-> <<>>, row_len |-> 0,
     rows |-> <<>>, buf |-> <<>>, result |-> [kind |-> "Running", msg |-> "", datasets |-> <<>>]]

Bail(st, msg) == [st EXCEPT !.pc = "done", !.result = LibErr(msg)]

(* lines 119-141 *)
ReadLibrary(d, st) ==
    LET lib0 == read_card(d, st.pos) IN
    IF ~lib0.ok THEN Bail([st EXCEPT !.pos = lib0.pos], "Failed to read first card")
    ELSE
    LET has == StartsWith(card_str(lib0.card), LIBRARY_PREFIX)
        lib1 == read_card(d, lib0.pos)
        lib2 == read_card(d, lib1.pos)
    IN  IF has
        THEN IF ~lib1.ok \/ ~lib2.ok
             THEN Bail([st EXCEPT !.pos = lib2.pos], "failed to fill whole buffer")
             ELSE [st EXCEPT !.pc = "member", !.pos = lib2.pos,
                             !.has_library_header = TRUE, !.first_card = lib0.card]
        ELSE IF ~StartsWith(card_str(lib0.card), BANNER_LITERAL)
             THEN Bail([st EXCEPT !.pos = lib0.pos],
                       "File does not start with a valid XPT header")
             ELSE [st EXCEPT !.pc = "member", !.pos = lib0.pos,
                             !.has_library_header = FALSE, !.first_card = lib0.card]

(* lines 166-188 and 198-220: the cards after a MEMBER banner.            *)
(* [err, pos, peeked]                                                      *)
AfterMemberBanner(d, pos) ==
    LET mh1 == read_card(d, pos)
        mhd0 == read_card(d, mh1.pos)
        mhd1 == read_card(d, mhd0.pos)
        dh0 == read_card(d, mhd1.pos)
        dh1 == read_card(d, dh0.pos)
    IN  IF ~mh1.ok \/ ~mhd0.ok \/ ~mhd1.ok
        THEN [err |-> TRUE, pos |-> mhd1.pos, peeked |-> <<>>]
        ELSE IF ~dh0.ok THEN [err |-> FALSE, pos |-> dh0.pos, peeked |-> <<>>]
        ELSE IF IsBannerKind(dh0.card, KW_DSCRPTR)
        THEN [err |-> ~dh1.ok, pos |-> dh1.pos, peeked |-> <<>>]
        ELSE IF IsBannerKind(dh0.card, KW_NAMESTR)
        THEN [err |-> FALSE, pos |-> dh0.pos, peeked |-> dh0.card]
        ELSE [err |-> FALSE, pos |-> dh0.pos, peeked |-> <<>>]

(* the end of the member loop, lines 501-505 *)
Finish(st) ==
    IF st.out = <<>> THEN Bail(st, "No datasets found")
    ELSE [st EXCEPT !.pc = "done", !.result = LibOk(st.out)]

(* lines 146-237: the head of one iteration of the member loop *)
MemberHeader(d, st) ==
    LET use_first == ~st.has_library_header /\ st.out = <<>>
        r0 == IF use_first THEN [ok |-> TRUE, card |-> st.first_card, pos |-> st.pos]
              ELSE read_card(d, st.pos)
    IN
    IF ~r0.ok THEN Finish([st EXCEPT !.pos = r0.pos])
    ELSE
    LET mh0 == r0.card
        is_member_header == IsBannerKind(mh0, KW_MEMBER)
        is_namestr_header == IsBannerKind(mh0, KW_NAMESTR)
        is_dscrptr_header == IsBannerKind(mh0, KW_DSCRPTR)
        s0 == [st EXCEPT !.pos = r0.pos, !.mh0 = mh0,
                         !.is_namestr_header = is_namestr_header]
        am == AfterMemberBanner(d, r0.pos)
        dh1 == read_card(d, r0.pos)
    IN
    IF is_member_header
    THEN IF am.err THEN Bail([s0 EXCEPT !.pos = am.pos], "failed to fill whole buffer")
         ELSE [s0 EXCEPT !.pc = "namestr", !.pos = am.pos,
                         !.peeked_namestr_card = am.peeked]
    ELSE IF use_first
    THEN IF is_dscrptr_header
         THEN IF ~dh1.ok THEN Bail([s0 EXCEPT !.pos = dh1.pos], "failed to fill whole buffer")
              ELSE [s0 EXCEPT !.pc = "namestr", !.pos = dh1.pos]
         ELSE [s0 EXCEPT !.pc = "namestr"]
    ELSE IF ~is_namestr_header /\ ~is_dscrptr_header
    THEN IF st.out = <<>>
         THEN Bail(s0, "Expected MEMBER, DSCRPTR, or NAMESTR header")
         ELSE Finish(s0)
    ELSE [s0 EXCEPT !.pc = "namestr"]

(* lines 240-266: the NAMESTR header cards *)
NamestrHeader(d, st) ==
    LET from_peek == st.peeked_namestr_card # <<>>
        from_mh0 == ~st.has_library_header /\ st.out = <<>> /\ st.is_namestr_header
        r0 == IF from_peek THEN [ok |-> TRUE, card |-> st.peeked_namestr_card, pos |-> st.pos]
              ELSE IF from_mh0 THEN [ok |-> TRUE, card |-> st.mh0, pos |-> st.pos]
              ELSE read_card(d, st.pos)
        nh1 == read_card(d, r0.pos)
        s0 == [st EXCEPT !.peeked_namestr_card = <<>>, !.pos = nh1.pos]
    IN  IF ~r0.ok \/ ~nh1.ok THEN Bail(s0, "failed to fill whole buffer")
        ELSE IF ~IsBannerKind(r0.card, KW_NAMESTR) THEN Bail(s0, "NAMESTR header missing")
        ELSE [s0 EXCEPT !.pc = "descr",
                        !.nvars_from_header = ParseCount(Slice(nh1.card, 54, 58)),
                        !.namestr_buffer = nh1.card,
                        !.cards_read = 0, !.skip_zeros = TRUE]

(* lines 287-332: one card of the scan for the OBS banner *)
ScanDescriptorCard(d, st) ==
    LET r == read_card(d, st.pos)
        n == st.cards_read + 1
        s0 == [st EXCEPT !.pos = r.pos]
    IN  IF ~r.ok THEN Bail(s0, "OBS header not found")
        ELSE IF IsBannerKind(r.card, KW_OBS)
        THEN [s0 EXCEPT !.pc = "vars", !.cards_read = n]
        ELSE IF st.skip_zeros /\ AllBytes(r.card, IsZero)
        THEN [s0 EXCEPT !.cards_read = n]
        ELSE IF n > 1000
        THEN Bail([s0 EXCEPT !.cards_read = n], "Read too many cards without finding OBS header")
        ELSE [s0 EXCEPT !.cards_read = n, !.skip_zeros = FALSE,
                        !.namestr_buffer = st.namestr_buffer \o r.card]

(* ResolveNvars trusting the count of the header whenever it is positive *)
ResolveNvars_HintFirst(nvars_from_header, calculated_nvars) ==
    IF nvars_from_header > 0 THEN nvars_from_header
    ELSE IF calculated_nvars > 0 THEN calculated_nvars
    ELSE NoneIdx

(* lines 342-356: Option<usize>, NoneIdx stands for the bail! *)
ResolveNvars(nvars_from_header, calculated_nvars) ==
    IF nvars_from_header > 0 /\ nvars_from_header = calculated_nvars THEN nvars_from_header
    ELSE IF calculated_nvars > 0 THEN calculated_nvars
    ELSE IF nvars_from_header > 0 THEN nvars_from_header
    ELSE NoneIdx

(* lines 360-372 *)
ParseVars(namestr_buffer, nvars) ==
    LET fit == {i \in 0..(nvars - 1) :
                   \A k \in 0..i : k * namestr_len + namestr_len <= Len(namestr_buffer)}
    IN  [i \in 1..Cardinality(fit) |->
            parse_namestr_140(Slice(namestr_buffer, (i - 1) * namestr_len, i * namestr_len))]

(* vars.sort_by_key(|v| v.position): a stable sort *)
SortByPosition(vs) ==
    LET n == Len(vs)
        Before(i, j) == vs[i].position < vs[j].position
                        \/ (vs[i].position = vs[j].position /\ i < j)
        Rank(i) == Cardinality({j \in 1..n : Before(j, i)}) + 1
    IN  [k \in 1..n |-> vs[CHOOSE i \in 1..n : Rank(i) = k]]

(* lines 339-399: the variables of the member and the second OBS card *)
ResolveVariables(d, st) ==
    LET calculated_nvars == Len(st.namestr_buffer) \div namestr_len
        nvars == ResolveNvars(st.nvars_from_header, calculated_nvars)
    IN
    IF nvars = NoneIdx THEN Bail(st, "No variables found")
    ELSE
    LET parsed == ParseVars(st.namestr_buffer, nvars) IN
    IF parsed = <<>> THEN Bail(st, "Failed to parse any variables")
    ELSE
    LET sorted == SortByPosition(parsed)
        oh1 == read_card(d, st.pos)
    IN  IF ~oh1.ok
        THEN Bail([st EXCEPT !.pos = oh1.pos], "Failed to read OBS header second card")
        ELSE [st EXCEPT !.pc = "rows", !.pos = oh1.pos, !.vars = sorted,
                        !.row_len = SumLengths(sorted, Len(sorted)),
                        !.rows = <<>>, !.buf = <<>>]

(* lines 465-480: a numeric cell *)
NumericCell(slice, length) ==
    LET eight == IF length >= 8 THEN Slice(slice, 0, 8)
                 ELSE Rep(0, 8 - length) \o slice
        r == ibm64_to_f64(eight)
    IN  IF r.miss.tag = "None" /\ r.val.some THEN OptSome(f64_to_string(r.val))
        ELSE OptNone

(* ReaderRow reading each cell at the declared position of its variable *)
ReaderRow_ByPosition(buf, vs) ==
    [j \in 1..Len(vs) |->
        LET v == vs[j]
        IN  IF v.position + v.length > Len(buf) THEN OptNone
            ELSE IF v.is_char
            THEN OptSome(decode_char(Slice(buf, v.position, v.position + v.length)))
            ELSE NumericCell(Slice(buf, v.position, v.position + v.length), v.length)]

(* lines 450-481: the cells of the row at the front of buf *)
ReaderRow(buf, vs) ==
    [j \in 1..Len(vs) |->
        LET offset == SumLengths(vs, j - 1)
            v == vs[j]
        IN  IF offset + v.length > Len(buf) THEN OptNone
            ELSE IF v.is_char THEN OptSome(decode_char(Slice(buf, offset, offset + v.length)))
            ELSE NumericCell(Slice(buf, offset, offset + v.length), v.length)]

(* lines 437-489 for row_len > 0: [rows, buf] *)
(* lines 482-486: a row is kept when it has one cell per variable *)
PushRow(rows, row, vs) == IF Len(row) = Len(vs) THEN Append(rows, row) ELSE rows

RECURSIVE DrainRows(_, _, _, _)
DrainRows(buf, rows, vs, row_len) ==
    IF Len(buf) < row_len THEN [rows |-> rows, buf |-> buf]
    ELSE DrainRows(Slice(buf, row_len, Len(buf)), PushRow(rows, ReaderRow(buf, vs), vs),
                   vs, row_len)

(* line 498 and the next iteration *)
PushDataset(st) ==
    [st EXCEPT !.pc = "member", !.out = Append(st.out, Dataset(DS_NAME, st.vars, st.rows)),
               !.vars = <<>>, !.rows = <<>>, !.buf = <<>>, !.row_len = 0,
               !.namestr_buffer = <<>>, !.mh0 = <<>>, !.is_namestr_header = FALSE,
               !.nvars_from_header = 0, !.cards_read = 0, !.skip_zeros = TRUE]

(* lines 402-490: one card of the row scan.  With row_len = 0 the inner    *)
(* while loop never ends: the call does not return.                        *)
ScanRowCard(d, st) ==
    LET r == read_card(d, st.pos)
        s0 == [st EXCEPT !.pos = r.pos]
    IN  IF ~r.ok THEN PushDataset(s0)
        ELSE IF StartsWith(card_str(r.card), BANNER_LITERAL) /\ st.buf = <<>>
        THEN PushDataset(s0)
        ELSE IF st.row_len = 0
        THEN [s0 EXCEPT !.pc = "diverge", !.buf = st.buf \o r.card,
                        !.result = [kind |-> "Diverges", msg |-> "", datasets |-> <<>>]]
        ELSE LET dr == DrainRows(st.buf \o r.card, st.rows, st.vars, st.row_len)
             IN  [s0 EXCEPT !.rows = dr.rows, !.buf = dr.buf]

ReaderStep(d, st) ==
    CASE st.pc = "start" -> ReadLibrary(d, st)
      [] st.pc = "member" -> MemberHeader(d, st)
      [] st.pc = "namestr" -> NamestrHeader(d, st)
      [] st.pc = "descr" -> ScanDescriptorCard(d, st)
      [] st.pc = "vars" -> ResolveVariables(d, st)
      [] st.pc = "rows" -> ScanRowCard(d, st)
      [] OTHER -> st

RECURSIVE ReaderRun(_, _)
ReaderRun(d, st) ==
    IF st.pc \in {"done", "diverge"} THEN st ELSE ReaderRun(d, ReaderStep(d, st))

(* read_xpt_v5_from_reader(BufReader::new(d)) *)
read_xpt_v5_from_reader(d) == ReaderRun(d, ReaderInit).result


(***************************************************************************)
(* Input files.  A file is described by a recipe and built into bytes.     *)
(* Three member layouts are generated:                                     *)
(*   "ts140": MEMBER banner, DSCRPTR banner, 2 data cards, NAMESTR banner, *)
(*            descriptors, OBS banner, rows (every banner is one card);    *)
(*   "spec":  MEMBER banner + 3 cards, DSCRPTR banner + 1 card, NAMESTR    *)
(*            banner + 1 data card, descriptors, OBS banner + 1 card, rows;*)
(*   "xptrs": as "spec" but without the NAMESTR data card.                 *)
(***************************************************************************)
TXT_LIBRARY == <<76,73,66,82,65,82,89,32>>  \* "LIBRARY "
TXT_MEMBER == <<77,69,77,66,69,82,32,32>>  \* "MEMBER  "
TXT_DSCRPTR == <<68,83,67,82,80,84,82,32>>  \* "DSCRPTR "
TXT_NAMESTR == <<78,65,77,69,83,84,82,32>>  \* "NAMESTR "
TXT_OBS == <<79,66,83,32,32,32,32,32>>  \* "OBS     "
TXT_GARBAGE == <<71,65,82,66,65,71,69,32>>  \* "GARBAGE "
TXT_TAIL == <<72,69,65,68,69,82,32,82,69,67,79,82,68,33,33,33,33,33,33,33>>  \* "HEADER RECORD!!!!!!!"

BannerCard(txt8, hint4) ==
    BANNER_LITERAL \o txt8 \o TXT_TAIL \o Rep(48, 6) \o hint4 \o Rep(48, 20) \o Rep(32, 2)

(* the banner of section kw of member m; with m.spaced = kw the keyword is *)
(* written one column to the right of its standard place                   *)
MemberBanner(m, kw, txt8, hint4) ==
    BannerCard(IF m.spaced = kw THEN <<32>> \o SubSeq(txt8, 1, 7) ELSE txt8, hint4)

HeaderDataCard(hint4) == Rep(32, 54) \o hint4 \o Rep(32, 22)

JunkCard == Rep(120, CARD)

Be16(n) == <<n \div 256, n % 256>>

Be32(n) == <<n \div 16777216, (n \div 65536) % 256, (n \div 256) % 256, n % 256>>

PadTo(d, unit, fill) == d \o Rep(fill, (unit - (Len(d) % unit)) % unit)

Overlay(d, offset, bytes) ==
    [i \in 1..Len(d) |-> IF i > offset /\ i <= offset + Len(bytes)
                         THEN bytes[i - offset] ELSE d[i]]

RECURSIVE Concat(_)
Concat(ss) == IF ss = <<>> THEN <<>> ELSE Head(ss) \o Concat(Tail(ss))

HintBytes(kind, n) ==
    CASE kind = "absent" -> Rep(32, 4)
      [] kind = "zero" -> TXT_0000
      [] kind = "wrong" -> Rep(48, 3) \o <<48 + (IF n > 1 THEN n - 1 ELSE n + 1)>>
      [] OTHER -> Rep(48, 3) \o <<48 + (n % 10)>>

(* one 140-byte descriptor for variable recipe v, the idx-th of its member *)
DescriptorBytes(v, idx) ==
    Be16(v.ntype) \o Be16(0) \o Be16(v.nlng) \o Be16(v.nvar0)
    \o <<86, 48 + idx>> \o Rep(32, 6)
    \o <<76, 48 + idx>> \o Rep(32, 38)
    \o Rep(32, 8) \o Rep(0, 8)
    \o Rep(32, 8) \o Rep(0, 4)
    \o Be32(v.npos) \o Rep(0, 52)

(* the values written into numeric cells *)
NUM_ONE == <<65, 16, 0, 0, 0, 0, 0, 0>>
NUM_NEG2P5 == <<193, 40, 0, 0, 0, 0, 0, 0>>
NUM_ZERO == <<0, 0, 0, 0, 0, 0, 0, 0>>
NUM_DOT == <<46, 0, 0, 0, 0, 0, 0, 0>>
NUM_UNDERSCORE == <<95, 0, 0, 0, 0, 0, 0, 0>>
NUM_A == <<65, 0, 0, 0, 0, 0, 0, 0>>
NUM_Z == <<90, 0, 0, 0, 0, 0, 0, 0>>
NUM_DOTFRAC == <<46, 16, 0, 0, 0, 0, 0, 0>>
NUM_SIXTEENTH == <<64, 16, 0, 0, 0, 0, 0, 0>>
NUM_17 == <<66, 17, 0, 0, 0, 0, 0, 0>>
NUM_NEGZERO == <<128, 0, 0, 0, 0, 0, 0, 0>>

NumMenu == <<NUM_ONE, NUM_NEG2P5, NUM_17, NUM_SIXTEENTH>>

SpecialNums == <<NUM_ZERO, NUM_DOT, NUM_UNDERSCORE, NUM_A, NUM_Z, NUM_NEGZERO,
                 NUM_ONE, NUM_NEG2P5, NUM_DOTFRAC>>

CharMenu == <<<<97, 98>>, <<120>>, <<>>, <<113, 32, 114>>>>

(* the bytes of the cell of variable v (the j-th) in row r *)
CellBytes(m, v, r, j) ==
    IF v.ntype = 1
    THEN LET full == IF m.cell = 0 THEN NumMenu[((r + j) % Len(NumMenu)) + 1]
                     ELSE SpecialNums[m.cell]
             w == IF m.exact \/ v.nlng > 8 THEN v.nlng ELSE 8
         IN  SubSeq(full \o Rep(0, w), 1, w)
    ELSE LET txt == IF m.cell = 0 THEN CharMenu[((r + j) % 2) + 1] ELSE CharMenu[m.cell]
             w == IF v.nlng > 1 THEN v.nlng ELSE 1
         IN  SubSeq(txt \o Rep(32, w), 1, w)

RowBytes(m, r) ==
    LET cells == Concat([j \in 1..Len(m.vars) |-> CellBytes(m, m.vars[j], r, j)])
    IN  IF m.rowpad THEN PadTo(cells, 8, 32) ELSE cells

RemainderBytes(m, len) ==
    LET n == IF m.rem.mode = "card" THEN (CARD - (len % CARD)) % CARD ELSE m.rem.n
    IN  IF n = 0 THEN <<>> ELSE Rep(m.rem.fill, n - 1) \o <<m.rem.last>>

ObsBytes(m) ==
    LET rows == Concat([r \in 1..m.rows |-> RowBytes(m, r)])
    IN  rows \o RemainderBytes(m, Len(rows))

(* the cards in front of the NAMESTR banner *)
MemberHead(m) ==
    LET member == MemberBanner(m, "MEMBER", TXT_MEMBER, TXT_0000)
                  \o (IF m.layout = "ts140" THEN <<>> ELSE Rep(32, 3 * CARD))
        dscr == MemberBanner(m, "DSCRPTR", TXT_DSCRPTR, TXT_0000)
                \o Rep(32, IF m.layout = "ts140" THEN 2 * CARD ELSE CARD)
    IN  (IF m.first = "MEMBER" THEN member ELSE <<>>)
        \o (IF m.first # "NAMESTR" /\ m.dscr THEN dscr ELSE <<>>)

DescriptorBlock(m) ==
    LET n == Len(m.vars)
        raw == PadTo(Concat([j \in 1..n |-> DescriptorBytes(m.vars[j], j)]), CARD, 32)
    IN  IF m.layout = "spec" THEN raw ELSE Overlay(raw, 54, HintBytes(m.hint, n))

(* the cards from the NAMESTR banner to the card in front of the OBS banner *)
NamestrSection(m) ==
    LET hint == HintBytes(m.hint, Len(m.vars))
    IN  MemberBanner(m, "NAMESTR", TXT_NAMESTR, hint)
        \o (IF m.layout = "spec" THEN HeaderDataCard(hint) ELSE <<>>)
        \o Rep(0, m.filler * CARD)
        \o DescriptorBlock(m)

ObsSection(m) ==
    MemberBanner(m, "OBS", TXT_OBS, TXT_0000)
    \o (IF m.layout = "ts140" THEN <<>> ELSE Rep(32, CARD))
    \o ObsBytes(m)

MemberBytes(m) == MemberHead(m) \o NamestrSection(m) \o ObsSection(m)

LibraryCards == BannerCard(TXT_LIBRARY, TXT_0000) \o Rep(32, 2 * CARD)

TailBytes(tail) ==
    CASE tail = "banner" -> BannerCard(TXT_GARBAGE, TXT_0000) \o JunkCard
      [] tail = "junk" -> JunkCard
      [] OTHER -> <<>>

(* byte offsets of the first NAMESTR and OBS banners of the file *)
NamestrOffset(f) ==
    (IF f.lib THEN Len(LibraryCards) ELSE 0) + Len(MemberHead(f.members[1]))

ObsOffset(f) == NamestrOffset(f) + Len(NamestrSection(f.members[1]))

WholeFile(f) ==
    (IF f.lib THEN LibraryCards ELSE <<>>)
    \o Concat([i \in 1..Len(f.members) |-> MemberBytes(f.members[i])])
    \o TailBytes(f.tail)

FileBytes(f) ==
    LET whole == WholeFile(f)
        keep == CASE f.cut.at = "start" -> f.cut.plus
                  [] f.cut.at = "namestr" -> NamestrOffset(f) + f.cut.plus
                  [] f.cut.at = "obs" -> ObsOffset(f) + f.cut.plus
                  [] OTHER -> Len(whole)
    IN  SubSeq(whole, 1, IF keep < Len(whole) THEN keep ELSE Len(whole))

(***************************************************************************)
(* The recipes of the generated files.                                     *)
(***************************************************************************)
VarKind(pat, j) ==
    CASE pat = "A" -> IF j % 3 = 0 THEN [ntype |-> 2, nlng |-> 4] ELSE [ntype |-> 1, nlng |-> 8]
      [] pat = "B" -> IF j % 2 = 0 THEN [ntype |-> 2, nlng |-> 1] ELSE [ntype |-> 1, nlng |-> 8]
      [] pat = "C" -> [ntype |-> 2, nlng |-> 3]
      [] pat = "S" -> IF j % 2 = 0 THEN [ntype |-> 2, nlng |-> 3] ELSE [ntype |-> 1, nlng |-> 4]
      [] pat = "W" -> IF j % 2 = 0 THEN [ntype |-> 2, nlng |-> 3] ELSE [ntype |-> 1, nlng |-> 10]
      [] pat = "Z" -> [ntype |-> 2, nlng |-> 0]
      [] OTHER -> [ntype |-> 1, nlng |-> 8]

RECURSIVE KindOffset(_, _)
KindOffset(pat, j) ==
    IF j <= 1 THEN 0 ELSE KindOffset(pat, j - 1) + VarKind(pat, j - 1).nlng

VarList(pat, n) ==
    [j \in 1..n |-> [ntype |-> VarKind(pat, j).ntype, nlng |-> VarKind(pat, j).nlng,
                     nvar0 |-> j, npos |-> KindOffset(pat, j)]]

(* the order number (bytes 6-7) and the position (bytes 84-87) declared by *)
(* the j-th of n descriptors under an ordering pattern                     *)
OrderOf(ord, pat, j, n) ==
    CASE ord = "desc" -> [nvar0 |-> n + 1 - j, npos |-> (n - j) * 8]
      [] ord = "cross" -> [nvar0 |-> j, npos |-> (n - j) * 8]
      [] ord = "zero" -> [nvar0 |-> 0, npos |-> 0]
      [] ord = "tie" -> [nvar0 |-> 2, npos |-> 8]
      [] ord = "mixed" -> IF j = 1 THEN [nvar0 |-> 2, npos |-> 8]
                          ELSE [nvar0 |-> 0, npos |-> 0]
      [] OTHER -> [nvar0 |-> j, npos |-> KindOffset(pat, j)]

OrderedVarList(pat, n, ord) ==
    [j \in 1..n |-> [ntype |-> VarKind(pat, j).ntype, nlng |-> VarKind(pat, j).nlng,
                     nvar0 |-> OrderOf(ord, pat, j, n).nvar0,
                     npos |-> OrderOf(ord, pat, j, n).npos]]

CardRem == [mode |-> "card", n |-> 0, fill |-> 32, last |-> 32]

FixedRem(n, fill, last) == [mode |-> "fixed", n |-> n, fill |-> fill, last |-> last]

Member(layout, vs, rows) ==
    [layout |-> layout, first |-> "MEMBER", dscr |-> TRUE, hint |-> "right",
     filler |-> 0, vars |-> vs, rows |-> rows, cell |-> 0, rowpad |-> FALSE,
     rem |-> CardRem, exact |-> FALSE, spaced |-> "none"]

NoCut == [at |-> "none", plus |-> 0]

File(lib, members) == [lib |-> lib, members |-> members, tail |-> "none", cut |-> NoCut]

Layouts == {"ts140", "spec", "xptrs"}

Firsts == {"MEMBER", "DSCRPTR", "NAMESTR"}

(* files of 1..MaxMembers members, with and without the LIBRARY wrapper *)
StructureFiles ==
    {File(lib, [i \in 1..n |-> [Member(layout, VarList("A", 3), MaxRows)
                                  EXCEPT !.first = IF i = 1 THEN first ELSE "MEMBER"]]) :
        lib \in BOOLEAN, layout \in Layouts, first \in Firsts, n \in 1..MaxMembers}

(* single-member files: number and kinds of variables, count hint, filler *)
DescriptorFiles ==
    {File(lib, <<[Member(layout, VarList(pat, n), 1)
                    EXCEPT !.hint = hint, !.filler = filler]>>) :
        lib \in {FALSE}, layout \in Layouts, pat \in {"A", "B", "C"}, n \in 1..MaxVars,
        hint \in {"absent", "zero", "wrong", "right"}, filler \in {0, 1}}

Remainders ==
    {FixedRem(0, 32, 32), CardRem}
    \cup {FixedRem(n, fill, fill) : n \in {1, 7}, fill \in {32, 0, 88}}
    \cup {FixedRem(3, 32, 88), FixedRem(12, 32, 32)}

(* single-member files: length of the observation block and its tail *)
ObservationFiles ==
    {File(TRUE, <<[Member("ts140", VarList(pat, n), rows)
                     EXCEPT !.rowpad = rowpad, !.rem = rem]>>) :
        pat \in {"A", "B", "C"}, n \in {1, 2}, rows \in 0..MaxRows,
        rowpad \in BOOLEAN, rem \in Remainders}

(* single-member, single-row files: the value of every cell *)
CellFiles ==
    {File(TRUE, <<[Member(layout, VarList(pat, 1), 1) EXCEPT !.cell = cell]>>) :
        layout \in {"ts140", "xptrs"}, pat \in {"N"}, cell \in 1..Len(SpecialNums)}
    \cup {File(TRUE, <<[Member(layout, VarList("C", 1), 1) EXCEPT !.cell = cell]>>) :
        layout \in {"ts140", "xptrs"}, cell \in 1..Len(CharMenu)}

Orders == {"asc", "desc", "cross", "zero", "tie", "mixed"}

(* single-member files: the order numbers and positions of the descriptors *)
OrderFiles ==
    {File(TRUE, <<Member(layout, OrderedVarList(pat, n, ord), MaxRows)>>) :
        layout \in Layouts, pat \in {"A", "B"}, n \in 2..MaxVars, ord \in Orders}

(* single-member files whose cells have exactly the declared length,       *)
(* numeric variables of 4, 8 and 10 bytes included                         *)
NarrowFiles ==
    {File(TRUE, <<[Member(layout, VarList(pat, n), MaxRows) EXCEPT !.exact = TRUE]>>) :
        layout \in {"ts140", "xptrs"}, pat \in {"S", "W", "B"}, n \in 1..2}

(* single-member files with one banner written with non-standard spacing *)
SpacingFiles ==
    {File(lib, <<[Member(layout, VarList("A", 2), 1) EXCEPT !.spaced = kw]>>) :
        lib \in BOOLEAN, layout \in {"ts140", "xptrs"},
        kw \in {"MEMBER", "DSCRPTR", "NAMESTR", "OBS"}}

(* single-member files whose descriptors all declare length 0, with and    *)
(* without a card after the OBS header                                     *)
ZeroWidthFiles ==
    {File(lib, <<Member(layout, VarList("Z", n), rows)>>) :
        lib \in BOOLEAN, layout \in {"ts140", "xptrs"}, n \in 1..2, rows \in {0, 1}}

Cuts ==
    {[at |-> "start", plus |-> n] : n \in {0, 40, 79, 80}}
    \cup {[at |-> at, plus |-> n] : at \in {"namestr", "obs"}, n \in {0, 48, 60, 80, 81, 160}}

(* truncated files *)
CutFiles ==
    {[File(TRUE, <<Member(layout, VarList("A", 3), 1)>>) EXCEPT !.cut = cut] :
        layout \in Layouts, cut \in Cuts}

(* files with cards after the last member *)
TailFiles ==
    {[File(lib, [i \in 1..n |-> Member(layout, VarList("A", 2), 1)]) EXCEPT !.tail = tail] :
        lib \in BOOLEAN, layout \in Layouts, n \in 1..MaxMembers, tail \in {"banner", "junk"}}

ParserFiles ==
    StructureFiles \cup DescriptorFiles \cup ObservationFiles \cup CellFiles \cup CutFiles
    \cup OrderFiles \cup NarrowFiles \cup SpacingFiles \cup ZeroWidthFiles

ReaderFiles ==
    StructureFiles \cup DescriptorFiles \cup CellFiles \cup CutFiles \cup TailFiles
    \cup OrderFiles \cup NarrowFiles \cup SpacingFiles \cup ZeroWidthFiles

(* the arguments of ibm64_to_f64: byte 0 is any byte *)
IbmInputs ==
    {<<b0, b1, 0, 0, 0, 0, 0, b7>> : b0 \in 0..255, b1 \in {0, 1, 16, 40}, b7 \in {0, 1}}
    \cup {<<b0, 0, 0, 0, 0, 0, 0>> : b0 \in {0, 46, 65}}

(***************************************************************************)
(* The state machine: one call of one entry point on one input.            *)
(***************************************************************************)
Pending == [kind |-> "Pending"]

Init ==
    /\ api \in {"XPTParser::parse", "read_xpt_v5_from_bytes", "ibm64_to_f64",
                "read_xpt_v5_from_reader"}
    /\ input \in CASE api = "ibm64_to_f64" -> IbmInputs
                   [] api = "read_xpt_v5_from_reader" -> ReaderFiles
                   [] OTHER -> ParserFiles
    /\ data = IF api = "ibm64_to_f64" THEN input ELSE FileBytes(input)
    /\ ret = Pending
    /\ rd = ReaderInit

Parse ==
    /\ api = "XPTParser::parse"
    /\ ret = Pending
    /\ ret' = XPTParser_parse(data)
    /\ UNCHANGED <<api, input, data, rd>>

ReadXptV5FromBytes ==
    /\ api = "read_xpt_v5_from_bytes"
    /\ ret = Pending
    /\ ret' = read_xpt_v5_from_bytes(data)
    /\ UNCHANGED <<api, input, data, rd>>

Ibm64ToF64 ==
    /\ api = "ibm64_to_f64"
    /\ ret = Pending
    /\ ret' = [kind |-> "Returned", out |-> ibm64_to_f64(data)]
    /\ UNCHANGED <<api, input, data, rd>>

(* one step of read_xpt_v5_from_reader; the call returns when it is done *)
ReaderAt(pc, Step(_, _)) ==
    /\ api = "read_xpt_v5_from_reader"
    /\ rd.pc = pc
    /\ rd' = Step(data, rd)
    /\ ret' = IF rd'.pc = "done" THEN rd'.result ELSE ret
    /\ UNCHANGED <<api, input, data>>

ReaderReadLibrary == ReaderAt("start", ReadLibrary)

ReaderMemberHeader == ReaderAt("member", MemberHeader)

ReaderNamestrHeader == ReaderAt("namestr", NamestrHeader)

ReaderScanDescriptorCard == ReaderAt("descr", ScanDescriptorCard)

ReaderResolveVariables == ReaderAt("vars", ResolveVariables)

ReaderScanRowCard == ReaderAt("rows", ScanRowCard)

Next ==
    \/ Parse
    \/ ReadXptV5FromBytes
    \/ Ibm64ToF64
    \/ ReaderReadLibrary
    \/ ReaderMemberHeader
    \/ ReaderNamestrHeader
    \/ ReaderScanDescriptorCard
    \/ ReaderResolveVariables
    \/ ReaderScanRowCard

Spec == Init /\ [][Next]_vars

(***************************************************************************)
(* Properties.                                                             *)
(***************************************************************************)
Called(a) == api = a /\ ret # Pending

(* bytes 1-7 of an 8-byte field are zero *)
ZeroTail(b) == Len(b) = 8 /\ \A i \in 2..8 : b[i] = 0

(* byte 0 is '.', '_' or a letter 'A'..'Z' and bytes 1-7 are zero *)
IsMissingPattern(b) == ZeroTail(b) /\ (b[1] = 46 \/ b[1] = 95 \/ (b[1] >= 65 /\ b[1] <= 90))

(* the names V1..Vn the generated descriptors declare, in declared order *)
DeclaredNames(n) == [j \in 1..n |-> <<86, 48 + j>>]

(* the row width the descriptors of member m declare *)
DeclaredWidth(m) == Len(Concat([j \in 1..Len(m.vars) |-> CellBytes(m, m.vars[j], 1, j)]))

(* C1: a LIBRARY wrapper followed by two member cycles of 3 variables      *)
(* decodes through read_xpt_v5_from_bytes to exactly 2 datasets, each with *)
(* its own 3 variables in declared order and the rows of its own           *)
(* observation section.                                                    *)
C1_TwoMembersTwoDatasets ==
    (/\ Called("read_xpt_v5_from_bytes")
     /\ input \in StructureFiles
     /\ input.lib
     /\ Len(input.members) = 2
     /\ input.members[1].first = "MEMBER")
        => /\ ret.kind = "Ok"
           /\ Len(ret.datasets) = 2
           /\ \A i \in 1..2 :
                /\ [j \in 1..Len(ret.datasets[i].vars) |-> ret.datasets[i].vars[j].name]
                       = DeclaredNames(3)
                /\ Len(ret.datasets[i].rows)
                       = Len(ObsBytes(input.members[i])) \div DeclaredWidth(input.members[i])

(* the bytes from the card after the first NAMESTR banner to the first    *)
(* OBS banner                                                              *)
DescriptorSpan == ObsOffset(input) - (NamestrOffset(input) + CARD)

(* the all-zero cards that directly follow the card after the NAMESTR      *)
(* banner: read_xpt_v5_from_reader leaves them out of the descriptor data  *)
ZeroCardsSkipped ==
    LET first == NamestrOffset(input) + 2 * CARD
        IsZeroCard(k) == AllBytes(Slice(data, first + k * CARD, first + (k + 1) * CARD), IsZero)
        n == (ObsOffset(input) - first) \div CARD
    IN  Cardinality({k \in 0..(n - 1) : \A q \in 0..k : IsZeroCard(q)})

ObsBlock == Slice(data, ObsOffset(input) + CARD, Len(data))

(* the last Len(b) mod w bytes of b *)
TrailingRemainder(b, w) == Slice(b, Len(b) - (Len(b) % w), Len(b))

(* the rows of ret are those of the first n * stride bytes of ObsBlock *)
RowsAtStride(stride, n) ==
    /\ Len(ret.rows) = n
    /\ \A r \in 1..n : \A j \in 1..Len(ret.variables) :
          LET at == (r - 1) * stride + SumLengths(ret.variables, j - 1)
          IN  ret.rows[r][j]
                  = parse_cell(Slice(ObsBlock, at, at + ret.variables[j].length),
                               ret.variables[j])

WidthError == ParseErr("Unable to determine observation width")

(* C3 as stated: with T not divisible by W, XPTParser::parse succeeds and  *)
(* decodes the first T - (T mod W) bytes when the trailing T mod W bytes   *)
(* are all 0x20, and fails with the unresolvable-row-width error when they *)
(* hold a non-blank byte.                                                  *)
C3_BlankRemainderOrError ==
    LET T == Len(ObsBlock)
        W == DeclaredWidth(input.members[1])
    IN  (Called("XPTParser::parse") /\ input \in ObservationFiles /\ T % W # 0)
            => IF AllBytes(TrailingRemainder(ObsBlock, W), LAMBDA b : b = 32)
               THEN ret.kind = "Ok" /\ RowsAtStride(W, T \div W)
               ELSE ret = WidthError

(* C3, amended: with T >= W not divisible by W, XPTParser::parse succeeds  *)
(* at stride W, decoding the first T - (T mod W) bytes, when the trailing  *)
(* T mod W bytes are all 0x20 or 0x00; otherwise it applies the same test  *)
(* to W rounded up to a multiple of 8 and decodes at that stride (or       *)
(* reports the data too small when T is below it), and it fails with the   *)
(* unresolvable-row-width error only when both widths are rejected.        *)
C3_FillerRemainderOrSecondWidth ==
    LET T == Len(ObsBlock)
        W == DeclaredWidth(input.members[1])
        W8 == ((W + 7) \div 8) * 8
    IN  (Called("XPTParser::parse") /\ input \in ObservationFiles /\ T >= W /\ T % W # 0)
            => IF AllBytes(TrailingRemainder(ObsBlock, W), IsFiller)
               THEN ret.kind = "Ok" /\ RowsAtStride(W, T \div W)
               ELSE IF T % W8 = 0 \/ AllBytes(TrailingRemainder(ObsBlock, W8), IsFiller)
               THEN IF T >= W8 THEN ret.kind = "Ok" /\ RowsAtStride(W8, T \div W8)
                    ELSE ret = ParseErr("Observation data too small")
               ELSE ret = WidthError

C3_Witness ==
    LET T == Len(ObsBlock)
        W == DeclaredWidth(input.members[1])
    IN  /\ Called("XPTParser::parse")
        /\ input \in ObservationFiles
        /\ T >= W
        /\ T % W # 0
        /\ ~AllBytes(TrailingRemainder(ObsBlock, W), IsFiller)
        /\ ret.kind = "Ok"
        /\ Len(ret.rows) = 1

(* C4: ibm64_to_f64 applied to eight zero bytes returns Some(0.0) with no  *)
(* missing tag.                                                            *)
C4_ZeroBytesDecodeToZero ==
    (Called("ibm64_to_f64") /\ data = NUM_ZERO)
        => /\ ret.out.val.some
           /\ ret.out.val.digs = <<>>
           /\ ret.out.miss.tag = "None"

(* C5: with bytes 1-7 zero, ibm64_to_f64 returns no value tagged Letter(b) *)
(* when byte 0 = b is in 'A'..'Z', and no value tagged Dot when byte 0 is  *)
(* '.' or '_'.                                                             *)
C5_MissingPatternsAreTagged ==
    (Called("ibm64_to_f64") /\ ZeroTail(data))
        => /\ (data[1] >= 65 /\ data[1] <= 90)
                => /\ ~ret.out.val.some
                   /\ ret.out.miss = IbmMissing("Letter", data[1])
           /\ (data[1] = 46 \/ data[1] = 95)
                => /\ ~ret.out.val.some
                   /\ ret.out.miss.tag = "Dot"

C5_Witness ==
    /\ Called("ibm64_to_f64")
    /\ data = NUM_Z
    /\ ret.out.miss = IbmMissing("Letter", 90)

(* sign * (sum over k = 1..14 of digit_k / 16^k) * 16^(e - 64) *)
IbmValue(b) == HexNorm(b[1] >= 128, Nibbles(b), (b[1] % 128) - 64)

(* C6: for every 8-byte input that is neither a missing pattern nor all    *)
(* zero, ibm64_to_f64 returns sign * 0.d1...d14 (hex) * 16^(e - 64); so    *)
(* {0x41,0x10,0,...} decodes to 1.0 and {0xC1,0x28,0,...} to -2.5.         *)
C6_ValueFormula ==
    (Called("ibm64_to_f64") /\ Len(data) = 8 /\ ~IsMissingPattern(data) /\ data # NUM_ZERO)
        => /\ ret.out.miss.tag = "None"
           /\ ret.out.val = SomeValue(IbmValue(data))
           /\ data = NUM_ONE => ret.out.val = SomeValue([neg |-> FALSE, digs |-> <<1>>, e |-> 1])
           /\ data = NUM_NEG2P5
                => ret.out.val = SomeValue([neg |-> TRUE, digs |-> <<2, 8>>, e |-> 1])

(* the 8 field bytes of the only cell of a one-row, one-variable file *)
OnlyField == Slice(data, ObsOffset(input) + CARD, ObsOffset(input) + CARD + 8)

(* C7: in the output of read_xpt_v5_from_bytes a numeric cell is None      *)
(* exactly when its 8 field bytes are a missing pattern ('.', '_' or a     *)
(* letter 'A'..'Z' followed by seven zero bytes); every other field,       *)
(* all-zero included, yields a present value.                              *)
C7_NoneIffMissingPattern ==
    (/\ Called("read_xpt_v5_from_bytes")
     /\ input \in CellFiles
     /\ input.members[1].layout = "ts140"
     /\ input.members[1].vars[1].ntype = 1)
        => /\ ret.kind = "Ok"
           /\ ret.datasets[1].rows[1][1].some = ~IsMissingPattern(OnlyField)

(* C8: read_xpt_v5_from_reader decodes a stream whose first card is a      *)
(* MEMBER, DSCRPTR or NAMESTR banner (no LIBRARY wrapper) as a             *)
(* single-member file without error, and returns the same dataset as for   *)
(* the same member sections preceded by the three LIBRARY cards.           *)
C8_WrapperlessSameAsWrapped ==
    (/\ Called("read_xpt_v5_from_reader")
     /\ input \in StructureFiles
     /\ ~input.lib
     /\ Len(input.members) = 1
     /\ input.members[1].layout = "xptrs")
        => /\ ret.kind = "Ok"
           /\ Len(ret.datasets) = 1
           /\ ret = read_xpt_v5_from_reader(FileBytes([input EXCEPT !.lib = TRUE]))

IsRecognisedBanner(card) ==
    \/ IsBannerKind(card, KW_MEMBER)
    \/ IsBannerKind(card, KW_NAMESTR)
    \/ IsBannerKind(card, KW_DSCRPTR)

(* C9: when, after one or more members were decoded, the next card exists  *)
(* but is not a recognised section banner, read_xpt_v5_from_reader returns *)
(* an error and not the datasets decoded so far.                           *)
C9_UnrecognisedCardIsError ==
    (/\ Called("read_xpt_v5_from_reader")
     /\ rd.out # <<>>
     /\ rd.mh0 # <<>>
     /\ ~IsRecognisedBanner(rd.mh0))
        => ret.kind = "Err"

(* C10: XPTParser::parse returns a dataset or an error value and never     *)
(* aborts; an input shorter than 80 bytes, and one that ends less than a   *)
(* full card after the start of the NAMESTR or OBS banner, yield an error. *)
C10_ParseNeverAborts ==
    Called("XPTParser::parse")
        => /\ ret.kind \in {"Ok", "Err"}
           /\ Len(data) < CARD => ret.kind = "Err"
           /\ (input.cut.at \in {"namestr", "obs"} /\ input.cut.plus < CARD)
                => ret.kind = "Err"

(* the declaration index j of the generated descriptor named Vj *)
DeclIndex(name) == IF Len(name) = 2 /\ name[1] = 86 THEN name[2] - 48 ELSE 0

(* vs is in ascending order of position, equal positions in declaration    *)
(* order                                                                   *)
InPositionOrder(vs) ==
    \A i, j \in 1..Len(vs) :
        i < j => \/ vs[i].position < vs[j].position
                 \/ /\ vs[i].position = vs[j].position
                    /\ DeclIndex(vs[i].name) < DeclIndex(vs[j].name)

(* C11: the variables of a decoded dataset are in ascending order of their *)
(* declared position, and variables with equal positions (all zero         *)
(* included) keep their on-disk declaration order.                         *)
C11_VariablesInPositionOrder ==
    /\ (Called("XPTParser::parse") /\ input \in OrderFiles
          /\ input.members[1].layout # "spec" /\ ret.kind = "Ok")
          => InPositionOrder(ret.variables)
    /\ (Called("read_xpt_v5_from_reader") /\ input \in OrderFiles
          /\ input.members[1].layout # "spec" /\ ret.kind = "Ok")
          => InPositionOrder(ret.datasets[1].vars)

(* the bytes of cell j of row r (both 1-based) in a region whose rows are  *)
(* stride bytes apart: the cells of a row follow each other in the order   *)
(* of vs                                                                   *)
CellField(region, stride, vs, r, j) ==
    Slice(region, (r - 1) * stride + SumLengths(vs, j - 1),
                  (r - 1) * stride + SumLengths(vs, j))

(* the observation region of the first member as read_xpt_v5_from_reader   *)
(* takes it: the bytes after the second card of the OBS header             *)
ReaderRegion == Slice(data, ObsOffset(input) + 2 * CARD, Len(data))

(* the rows of XPTParser::parse are cut from ObsBlock at the given stride *)
ParserRowsFrom(stride) ==
    \A r \in 1..Len(ret.rows) : \A j \in 1..Len(ret.variables) :
        ret.rows[r][j] = parse_cell(CellField(ObsBlock, stride, ret.variables, r, j),
                                    ret.variables[j])

(* the cell read_xpt_v5_from_reader makes of the field bytes of variable v *)
ReaderCell(field, v) ==
    IF v.is_char THEN OptSome(decode_char(field)) ELSE NumericCell(field, v.length)

ReaderRowsFrom(ds) ==
    \A r \in 1..Len(ds.rows) : \A j \in 1..Len(ds.vars) :
        ds.rows[r][j] = ReaderCell(CellField(ReaderRegion, SumLengths(ds.vars, Len(ds.vars)),
                                             ds.vars, r, j), ds.vars[j])

DescriptorAt(j) ==
    Slice(data, NamestrOffset(input) + CARD + NAME_STRING_RECORD_LENGTH * (j - 1),
                NamestrOffset(input) + CARD + NAME_STRING_RECORD_LENGTH * j)

(* the big-endian 16-bit and 32-bit integers at byte offset at of b *)
U16At(b, at) == b[at + 1] * 256 + b[at + 2]

U32At(b, at) == U16At(b, at) * 65536 + U16At(b, at + 2)

(* position, length and type are the fields of descriptor b *)
FieldsOf(position, length, numeric, b) ==
    /\ position = U32At(b, 84)
    /\ length = U16At(b, 4)
    /\ numeric <=> (U16At(b, 0) = 1)

(* C13: the position of a decoded variable is the 32-bit big-endian        *)
(* integer at bytes 84-87 of its descriptor, its length the 16-bit integer *)
(* at bytes 4-5, and it is Numeric iff the 16-bit integer at bytes 0-1 is  *)
(* 1.                                                                      *)
C13_DescriptorFields ==
    /\ (Called("XPTParser::parse") /\ input \in OrderFiles \cup NarrowFiles
          /\ input.members[1].layout # "spec" /\ ret.kind = "Ok")
          => \A k \in 1..Len(ret.variables) :
                LET v == ret.variables[k]
                IN  FieldsOf(v.position, v.length, v.var_type = "Numeric",
                             DescriptorAt(DeclIndex(v.name)))
    /\ (Called("read_xpt_v5_from_reader") /\ input \in OrderFiles \cup NarrowFiles
          /\ input.members[1].layout # "spec" /\ ret.kind = "Ok")
          => \A k \in 1..Len(ret.datasets[1].vars) :
                LET v == ret.datasets[1].vars[k]
                IN  FieldsOf(v.position, v.length, ~v.is_char,
                             DescriptorAt(DeclIndex(v.name)))

(* the 140 bytes at offset 140 * (i - 1) from the first byte after the     *)
(* second card of the first NAMESTR header                                 *)
PackedDescriptor(i) ==
    Slice(data, NamestrOffset(input) + 2 * CARD + NAME_STRING_RECORD_LENGTH * (i - 1),
                NamestrOffset(input) + 2 * CARD + NAME_STRING_RECORD_LENGTH * i)

(* the generated files whose NAMESTR header has two cards directly         *)
(* followed by the descriptors, declared in ascending order of position    *)
TwoCardHeaderFile ==
    /\ input \in DescriptorFiles
    /\ input.members[1].layout = "spec"
    /\ input.members[1].filler = 0

(* C14: descriptor number i (0-based) of a member is parsed from the 140   *)
(* bytes at offset 140 * i from the first byte after the second card of    *)
(* the NAMESTR header: the descriptors are packed without card alignment   *)
(* and neither header card is part of the descriptor bytes.                *)
C14_DescriptorsAfterSecondCard ==
    /\ (Called("XPTParser::parse") /\ TwoCardHeaderFile)
          => /\ ret.kind = "Ok"
             /\ \A k \in 1..Len(ret.variables) :
                   ret.variables[k]
                       = MakeVariable(parse_name_string(PackedDescriptor(k)), k - 1)
    /\ (Called("read_xpt_v5_from_reader") /\ TwoCardHeaderFile)
          => /\ ret.kind = "Ok"
             /\ \A k \in 1..Len(ret.datasets[1].vars) :
                   ret.datasets[1].vars[k] = parse_namestr_140(PackedDescriptor(k))

(* the generated files with an all-zero card between the NAMESTR header    *)
(* and the first descriptor                                                *)
ZeroFillerFile == input \in DescriptorFiles /\ input.members[1].filler = 1

(* C15: all-zero filler cards between the NAMESTR header and the first     *)
(* real descriptor are skipped: they are not parsed as descriptors, add    *)
(* nothing to the variable count, and the first variable of the dataset is *)
(* the first non-filler descriptor.                                        *)
C15_ZeroFillerCardsSkipped ==
    /\ (Called("XPTParser::parse") /\ ZeroFillerFile)
          => /\ ret.kind = "Ok"
             /\ Len(ret.variables) = Len(input.members[1].vars)
             /\ ret.variables[1].name = DeclaredNames(1)[1]
    /\ (Called("read_xpt_v5_from_reader") /\ ZeroFillerFile)
          => /\ ret.kind = "Ok"
             /\ Len(ret.datasets[1].vars) = Len(input.members[1].vars)
             /\ ret.datasets[1].vars[1].name = DeclaredNames(1)[1]

(* the lengths the descriptors of the first member declare *)
DeclaredLengths == [j \in 1..Len(input.members[1].vars) |->
                       [length |-> input.members[1].vars[j].nlng]]

(* a numeric field right-aligned in 8 bytes: zero bytes in front of a      *)
(* field shorter than 8, the first 8 bytes of a longer one                 *)
RightAligned(field) ==
    IF Len(field) >= 8 THEN Slice(field, 0, 8) ELSE Rep(0, 8 - Len(field)) \o field

(* C16: a numeric variable declared with length L < 8 consumes exactly L   *)
(* bytes of each row (it counts as L in the row width), its value is       *)
(* decoded from 8 - L zero bytes followed by the L field bytes, and a      *)
(* numeric field wider than 8 bytes is truncated to 8 bytes.               *)
C16_NarrowNumericRightAligned ==
    LET W == SumLengths(DeclaredLengths, Len(DeclaredLengths))
    IN  /\ (Called("XPTParser::parse") /\ input \in NarrowFiles)
              => /\ ret.kind = "Ok"
                 /\ \A j \in 1..Len(ret.variables) :
                       /\ ret.variables[j].length = DeclaredLengths[j].length
                       /\ ret.variables[j].var_type = "Numeric"
                            => \A r \in 1..Len(ret.rows) :
                                 ret.rows[r][j] = parse_numeric_value(RightAligned(
                                     CellField(ObsBlock, W, DeclaredLengths, r, j)))
        /\ (Called("read_xpt_v5_from_reader") /\ input \in NarrowFiles)
              => /\ ret.kind = "Ok"
                 /\ \A j \in 1..Len(ret.datasets[1].vars) :
                       /\ ret.datasets[1].vars[j].length = DeclaredLengths[j].length
                       /\ ~ret.datasets[1].vars[j].is_char
                            => \A r \in 1..Len(ret.datasets[1].rows) :
                                 ret.datasets[1].rows[r][j] = NumericCell(RightAligned(
                                     CellField(ReaderRegion, W, DeclaredLengths, r, j)), 8)

(* the bytes of the input file with every banner in its standard spacing *)
StandardSpacing == FileBytes([input EXCEPT !.members[1].spaced = "none"])

(* C17: a card is recognised as a section banner whenever it holds both    *)
(* the section keyword (MEMBER, DSCRPTR, NAMESTR, OBS) and HEADER,         *)
(* whatever the spacing between the words: a file with a banner in         *)
(* non-standard spacing decodes as the same file in standard spacing does. *)
C17_BannerByKeywords ==
    /\ (Called("XPTParser::parse") /\ input \in SpacingFiles)
          => ret = XPTParser_parse(StandardSpacing)
    /\ (Called("read_xpt_v5_from_reader") /\ input \in SpacingFiles)
          => ret = read_xpt_v5_from_reader(StandardSpacing)

(* every row of dataset ds has one cell per variable *)
OneCellPerVariable(ds) == \A r \in 1..Len(ds.rows) : Len(ds.rows[r]) = Len(ds.vars)

(* C19: in every dataset returned by a successful decode every row has     *)
(* exactly one cell per variable, in the order of the variables (the cell  *)
(* of a character variable of read_xpt_v5_from_reader is a present         *)
(* string); no row with fewer cells is emitted.                            *)
C19_OneCellPerVariable ==
    /\ (Called("XPTParser::parse") /\ ret.kind = "Ok")
          => \A r \in 1..Len(ret.rows) : Len(ret.rows[r]) = Len(ret.variables)
    /\ (Called("read_xpt_v5_from_bytes") /\ ret.kind = "Ok")
          => \A k \in 1..Len(ret.datasets) : OneCellPerVariable(ret.datasets[k])
    /\ api = "read_xpt_v5_from_reader"
          => \A k \in 1..Len(rd.out) :
                /\ OneCellPerVariable(rd.out[k])
                /\ \A r \in 1..Len(rd.out[k].rows) : \A j \in 1..Len(rd.out[k].vars) :
                      rd.out[k].vars[j].is_char => rd.out[k].rows[r][j].some

C19_Witness ==
    /\ Called("read_xpt_v5_from_bytes")
    /\ ret.kind = "Ok"
    /\ Len(ret.datasets[1].vars) >= 2
    /\ Len(ret.datasets[1].rows) >= 2
    /\ \E r \in 1..Len(ret.datasets[1].rows) : \E c \in 1..Len(ret.datasets[1].rows[r]) :
          ~ret.datasets[1].rows[r][c].some

(* candidate stride s qualifies for the observation block: it divides the  *)
(* length of the block or the remainder at its end is all 0x00 or 0x20     *)
Qualifies(s) ==
    \/ Len(ObsBlock) % s = 0
    \/ AllBytes(TrailingRemainder(ObsBlock, s), IsFiller)

(* W rounded up to a multiple of 8 *)
RoundUp8(W) == ((W + 7) \div 8) * 8

(* C20: the row stride XPTParser::parse chooses is the first of W and W    *)
(* rounded up to a multiple of 8 that divides the length T of the          *)
(* observation region or leaves a trailing remainder of 0x00/0x20 bytes    *)
(* only, which is discarded; the decode fails with the unresolvable-width  *)
(* error if and only if neither candidate qualifies.                       *)
C20_FirstQualifyingStride ==
    (Called("XPTParser::parse") /\ input \in ObservationFiles)
        => LET W == DeclaredWidth(input.members[1])
           IN  /\ (ret = WidthError) <=> (~Qualifies(W) /\ ~Qualifies(RoundUp8(W)))
               /\ ret.kind = "Ok"
                    => IF Qualifies(W) THEN RowsAtStride(W, Len(ObsBlock) \div W)
                       ELSE RowsAtStride(RoundUp8(W), Len(ObsBlock) \div RoundUp8(W))

C20_Witness ==
    /\ Called("XPTParser::parse")
    /\ input \in ObservationFiles
    /\ ~Qualifies(DeclaredWidth(input.members[1]))
    /\ Qualifies(RoundUp8(DeclaredWidth(input.members[1])))
    /\ ret.kind = "Ok"
    /\ Len(ret.rows) = 2

(* the generated two-member files in the layout read_xpt_v5_from_reader    *)
(* decodes, LIBRARY wrapper included                                       *)
TwoMemberFile ==
    /\ input \in StructureFiles
    /\ input.lib
    /\ Len(input.members) = 2
    /\ input.members[1].layout = "xptrs"
    /\ input.members[1].first = "MEMBER"

(* C21: in read_xpt_v5_from_reader a card beginning with the banner        *)
(* literal that is read during the row scan while no partial row is        *)
(* buffered ends the rows of the member and is pushed back: it is the      *)
(* first card the header scan of the next member examines, no card is lost *)
(* between members and the following member is decoded.                    *)
C21_BannerCardPushedBack ==
    /\ (api = "read_xpt_v5_from_reader" /\ rd.out # <<>> /\ rd.mh0 # <<>>)
          => StartsWith(card_str(rd.mh0), BANNER_LITERAL)
    /\ (Called("read_xpt_v5_from_reader") /\ TwoMemberFile)
          => /\ ret.kind = "Ok"
             /\ Len(ret.datasets) = 2
             /\ [j \in 1..Len(ret.datasets[2].vars) |-> ret.datasets[2].vars[j].name]
                    = DeclaredNames(3)

(* C22: every decode call on a finite input terminates and returns a       *)
(* dataset list or an error, whatever the descriptor fields are, files     *)
(* whose declared lengths sum to zero (row width 0) included: the reader   *)
(* never enters a loop it cannot leave.                                    *)
C22_EveryCallReturns ==
    /\ api = "read_xpt_v5_from_reader" => rd.pc # "diverge"
    /\ Called("read_xpt_v5_from_reader") => ret.kind \in {"Ok", "Err"}
    /\ (Called("XPTParser::parse") /\ input \in ZeroWidthFiles)
          => ret.kind \in {"Ok", "Err"}

(* the single-cell files of one character variable in the layout           *)
(* XPTParser::parse decodes                                                *)
CharCellFile ==
    /\ input \in CellFiles
    /\ input.members[1].layout = "ts140"
    /\ input.members[1].vars[1].ntype = 2

(* C23: in the output of read_xpt_v5_from_bytes the cell of a Character    *)
(* variable is always a present string, equal to the bytes of its field    *)
(* with the trailing whitespace/padding removed (the empty string          *)
(* included); only the cells of Numeric variables can be None.             *)
C23_CharacterCellPresent ==
    /\ (Called("read_xpt_v5_from_bytes") /\ ret.kind = "Ok")
          => \A k \in 1..Len(ret.datasets) :
                \A r \in 1..Len(ret.datasets[k].rows) :
                   \A j \in 1..Len(ret.datasets[k].rows[r]) :
                      ret.datasets[k].vars[j].is_char => ret.datasets[k].rows[r][j].some
    /\ (Called("read_xpt_v5_from_bytes") /\ CharCellFile)
          => /\ ret.kind = "Ok"
             /\ ret.datasets[1].rows[1][1]
                   = OptSome(ascii_string_trimmed(
                         Slice(ObsBlock, 0, input.members[1].vars[1].nlng)))

TooSmall == ParseErr("Observation data too small")

(* the stride XPTParser::parse resolves for ObsBlock when one of the two    *)
(* candidates qualifies                                                    *)
ResolvedStride(W) == IF Qualifies(W) THEN W ELSE RoundUp8(W)

(* the bytes of ObsBlock kept at stride s: all but the trailing remainder *)
KeptBytes(s) == Len(ObsBlock) - (Len(ObsBlock) % s)

(* C24: XPTParser::parse returns the error "Observation data too small"    *)
(* whenever the observation region, after the filler remainder is removed, *)
(* holds fewer bytes than one row stride, the empty region included; a     *)
(* member without observations is never decoded to a dataset of zero rows, *)
(* and every dataset returned has at least one row.                        *)
C24_NoDatasetWithoutRows ==
    /\ (Called("XPTParser::parse") /\ ret.kind = "Ok") => Len(ret.rows) >= 1
    /\ (Called("XPTParser::parse") /\ input \in ObservationFiles)
          => LET W == DeclaredWidth(input.members[1])
             IN  /\ ((Qualifies(W) \/ Qualifies(RoundUp8(W)))
                       /\ KeptBytes(ResolvedStride(W)) < ResolvedStride(W))
                        => ret = TooSmall
                 /\ Len(ObsBlock) = 0 => ret = TooSmall

C24_Witness ==
    /\ Called("XPTParser::parse")
    /\ input \in ObservationFiles
    /\ Len(ObsBlock) > 0
    /\ KeptBytes(ResolvedStride(DeclaredWidth(input.members[1]))) = 0
    /\ ret = TooSmall

(* the sum of the lengths of the variables XPTParser::parse returned *)
ReturnedWidth == SumLengths(ret.variables, Len(ret.variables))

(* C25: on success XPTParser::parse returns exactly (T - r) / stride rows,  *)
(* where T is the length of the observation region and r = T mod stride,   *)
(* smaller than the stride, is the only part of the region discarded:      *)
(* filler bytes (0x00/0x20) that pad the last card and span whole strides  *)
(* are returned as rows, not dropped.                                      *)
C25_AllWholeStridesAreRows ==
    (Called("XPTParser::parse") /\ input.cut = NoCut /\ ret.kind = "Ok")
        => LET stride == ResolvedStride(ReturnedWidth)
               T == Len(ObsBlock)
           IN  /\ Len(ret.rows) * stride + (T % stride) = T
               /\ \A r \in 1..(T \div stride) :
                     /\ r <= Len(ret.rows)
                     /\ Len(ret.rows[r]) = Len(ret.variables)

C25_Witness ==
    /\ Called("XPTParser::parse")
    /\ input \in ObservationFiles
    /\ ret.kind = "Ok"
    /\ Len(ret.rows) > input.members[1].rows
    /\ Len(ObsBlock) % ResolvedStride(ReturnedWidth) > 0
    /\ AllBytes(Slice(ObsBlock, (Len(ret.rows) - 1) * ResolvedStride(ReturnedWidth),
                               Len(ret.rows) * ResolvedStride(ReturnedWidth)), IsFiller)

====
